---- MODULE Spec2Model ----
(***************************************************************************)
(* Model of backend/server.py: the GPS ingest handlers (save_gps_data,     *)
(* simulate_gps_data), the status classification (determine_status), the   *)
(* WebSocket ConnectionManager (connect, disconnect, broadcast) and the    *)
(* websocket_endpoint handler.                                             *)
(*                                                                         *)
(* Coroutines run on one event loop: a handler runs atomically from one    *)
(* await to the next.  The awaits modelled as suspension points are        *)
(* db.gps_data.insert_one and connection.send_text.  Speeds, latitudes and *)
(* longitudes are whole numbers (km/h, degrees).  Fields the properties do *)
(* not read (altitude, heading, timestamp, address, user_id) are left out. *)
(*                                                                         *)
(* Spec is the whole service.  SpecObservers and SpecIngest are the        *)
(* service with fewer kinds of request, SpecHub is the ConnectionManager   *)
(* called directly, SpecClassify is determine_status called directly.      *)
(***************************************************************************)
EXTENDS Integers, Sequences, FiniteSets, TLC

\* ---- bounds ----
NumConns == 2
NumTasks == 2
MaxIngests == 2
MaxList == 2
MaxSpeed == 12
MaxLimit == 12

\* ---- program constants ----
DefaultSpeedLimit == 80
R == 6371

Conns == 1..NumConns
Tasks == 1..NumTasks

VARIABLES
    SPEED_LIMIT,         \* module global read from the environment at start-up
    active_connections,  \* manager.active_connections, a list of websockets
    ws_state,            \* per websocket: position of its websocket_endpoint handler
    failing,             \* websockets whose send_text raises
    store,               \* db.gps_data, the inserted documents in insertion order
    travel_sessions,     \* the TravelSession objects in existence
    ingests,             \* number of ingest requests received so far
    pc,                  \* per request: position of its handler
    handler,             \* per request: which handler serves it
    gps_data,            \* per request: the document built by the handler
    inserted_id,         \* per request: result.inserted_id (0 before the insert)
    message,             \* per request: the event passed to manager.broadcast
    idx,                 \* per request: index of broadcast's list iterator
    cur,                 \* per request: the connection broadcast is sending to
    result,              \* per request: what the caller gets back
    tried,               \* per request: connections broadcast called send_text on
    got,                 \* per request: per connection, number of completed sends
    stayed,              \* per request: connections registered since broadcast began
    quiet,               \* per request: nobody else changed the list since broadcast began
    speed_arg,           \* argument of a direct call of determine_status
    status_ret           \* value returned by that call ("" before the call)

vars == <<SPEED_LIMIT, active_connections, ws_state, failing, store,
          travel_sessions, ingests, pc, handler, gps_data, inserted_id,
          message, idx, cur, result, tried, got, stayed, quiet, speed_arg, status_ret>>

connVars == <<active_connections, ws_state>>
taskVars == <<pc, handler, gps_data, inserted_id, message, idx, cur, result,
              tried, got>>
ghostVars == <<stayed, quiet>>
classifyVars == <<speed_arg, status_ret>>
fixedVars == <<SPEED_LIMIT, failing, travel_sessions>>

Range(s) == {s[i] : i \in 1..Len(s)}

\* ---- inputs ----

\* Request bodies accepted by the GPSInput model: the fields are typed
\* (str, float, float, Optional[float]) and carry no range constraint.  A
\* null speed is left out: determine_status raises on it before anything is
\* stored or sent.
GPSInputs ==
    { [device_id |-> "D1", latitude |-> -6,  longitude |-> 106, speed |-> 0],
      [device_id |-> "D1", latitude |-> -5,  longitude |-> 106, speed |-> 95],
      [device_id |-> "",   latitude |-> -6,  longitude |-> 106, speed |-> 40],
      [device_id |-> "D1", latitude |-> 200, longitude |-> 106, speed |-> 40],
      [device_id |-> "D1", latitude |-> -6,  longitude |-> 200, speed |-> 40],
      [device_id |-> "D1", latitude |-> -6,  longitude |-> 106, speed |-> -5] }

\* the body of GPSInputs that is over the default limit
OverspeedInput ==
    [device_id |-> "D1", latitude |-> -5, longitude |-> 106, speed |-> 95]

\* random.uniform(0, 120) of simulate_gps_data
SimSpeeds == {120}

NoData ==
    [device_id |-> "", latitude |-> 0, longitude |-> 0, speed |-> 0, status |-> ""]
Pending == [pending |-> TRUE]
NoGot == [c \in Conns |-> 0]

\* ---- pure functions ----

\* variant: the limit itself already counts as overspeed
determine_status_ge(speed) ==
    IF speed = 0 THEN "diam"
    ELSE IF speed >= SPEED_LIMIT THEN "overspeed"
    ELSE "bergerak"

determine_status(speed) ==
    IF speed = 0 THEN "diam"
    ELSE IF speed > SPEED_LIMIT THEN "overspeed"
    ELSE "bergerak"

Abs(x) == IF x < 0 THEN -x ELSE x

\* Haversine distance in units of pi/180 km.  For two points on one meridian
\* a = sin(dlat/2)^2 and c = |dlat|, for two points on the equator c = |dlon|
\* (|dlon| <= 180); the model calls it on such pairs only.
calculate_distance(lat1, lon1, lat2, lon2) ==
    CASE lon1 = lon2 -> R * Abs(lat2 - lat1)
      [] lat1 = 0 /\ lat2 = 0 /\ Abs(lon2 - lon1) <= 180 -> R * Abs(lon2 - lon1)

\* ---- ConnectionManager ----

\* self.active_connections.append(websocket), after websocket.accept()
connect(conns, websocket) == Append(conns, websocket)

IndexOf(conns, websocket) ==
    CHOOSE i \in 1..Len(conns) :
        conns[i] = websocket /\ \A j \in 1..(i - 1) : conns[j] # websocket

\* variant: the connection is left in the list
disconnect_keep(conns, websocket) == conns

\* list.remove drops the first occurrence
disconnect(conns, websocket) ==
    IF websocket \in Range(conns)
    THEN LET i == IndexOf(conns, websocket)
         IN  SubSeq(conns, 1, i - 1) \o SubSeq(conns, i + 1, Len(conns))
    ELSE conns

\* What the other requests see of a change of the list from active_connections
\* to conns made by somebody else than request t (t = 0: a websocket handler).
Observe(t, conns) ==
    /\ stayed' = [u \in Tasks |->
                    IF pc[u] = "sending" THEN stayed[u] \cap Range(conns)
                    ELSE stayed[u]]
    /\ quiet' = [u \in Tasks |->
                    IF pc[u] = "sending" /\ u # t /\ conns # active_connections
                    THEN FALSE ELSE quiet[u]]

\* ---- ingest handlers ----

\* broadcast_data["data"] of both handlers
broadcast_data(d) ==
    [device_id |-> d.device_id, latitude |-> d.latitude,
     longitude |-> d.longitude, speed |-> d.speed, status |-> d.status]

\* the return statement of the handler serving request t
Response(t, id) ==
    IF handler[t] = "save"
    THEN [message |-> "Data GPS berhasil disimpan", id |-> id,
          status |-> gps_data[t].status]
    ELSE [message |-> "Data simulasi berhasil dibuat",
          data |-> broadcast_data(gps_data[t])]

\* The for statement of broadcast after k items were taken from conns: the
\* list iterator yields conns[k + 1] when there is one and send_text is
\* called on it; otherwise broadcast returns and the handler returns res.
Iterate(t, conns, k, res) ==
    IF k < Len(conns)
    THEN /\ pc' = [pc EXCEPT ![t] = "sending"]
         /\ idx' = [idx EXCEPT ![t] = k + 1]
         /\ cur' = [cur EXCEPT ![t] = conns[k + 1]]
         /\ tried' = [tried EXCEPT ![t] = @ \cup {conns[k + 1]}]
         /\ result' = result
    ELSE /\ pc' = [pc EXCEPT ![t] = "done"]
         /\ idx' = idx
         /\ cur' = [cur EXCEPT ![t] = 0]
         /\ tried' = tried
         /\ result' = [result EXCEPT ![t] = res]

\* POST /api/gps up to the await of insert_one
save_gps_data(t, gps_input) ==
    /\ pc[t] = "idle"
    /\ ingests < MaxIngests
    /\ ingests' = ingests + 1
    /\ handler' = [handler EXCEPT ![t] = "save"]
    /\ gps_data' = [gps_data EXCEPT ![t] =
                      [device_id |-> gps_input.device_id,
                       latitude |-> gps_input.latitude,
                       longitude |-> gps_input.longitude,
                       speed |-> gps_input.speed,
                       status |-> determine_status(gps_input.speed)]]
    /\ pc' = [pc EXCEPT ![t] = "insert"]
    /\ UNCHANGED <<connVars, ghostVars, classifyVars, fixedVars, store,
                   inserted_id, message, idx, cur, result, tried, got>>

\* POST /api/gps/simulate up to the await of insert_one
simulate_gps_data(t, speed) ==
    /\ pc[t] = "idle"
    /\ ingests < MaxIngests
    /\ ingests' = ingests + 1
    /\ handler' = [handler EXCEPT ![t] = "simulate"]
    /\ gps_data' = [gps_data EXCEPT ![t] =
                      [device_id |-> "SIM001", latitude |-> -6,
                       longitude |-> 106, speed |-> speed,
                       status |-> determine_status(speed)]]
    /\ pc' = [pc EXCEPT ![t] = "insert"]
    /\ UNCHANGED <<connVars, ghostVars, classifyVars, fixedVars, store,
                   inserted_id, message, idx, cur, result, tried, got>>

\* insert_one returns: the document is in the collection, the handler builds
\* broadcast_data and enters manager.broadcast up to its first await
insert_one_returns(t) ==
    /\ pc[t] = "insert"
    /\ store' = Append(store, gps_data[t])
    /\ inserted_id' = [inserted_id EXCEPT ![t] = Len(store) + 1]
    /\ message' = [message EXCEPT ![t] = broadcast_data(gps_data[t])]
    /\ stayed' = [stayed EXCEPT ![t] = Range(active_connections)]
    /\ quiet' = [quiet EXCEPT ![t] = TRUE]
    /\ Iterate(t, active_connections, 0, Response(t, Len(store) + 1))
    /\ UNCHANGED <<connVars, classifyVars, fixedVars, ingests, handler,
                   gps_data, got>>

\* variant: the exception of insert_one is swallowed, the caller gets the
\* success response
insert_one_raises_swallowed(t) ==
    /\ pc[t] = "insert"
    /\ pc' = [pc EXCEPT ![t] = "done"]
    /\ result' = [result EXCEPT ![t] = Response(t, 0)]
    /\ UNCHANGED <<connVars, ghostVars, classifyVars, fixedVars, store,
                   ingests, handler, gps_data, inserted_id, message, idx, cur,
                   tried, got>>

\* variant: the exception of insert_one is caught and the handler goes on to
\* broadcast before it reports the failure
insert_one_raises_broadcast(t) ==
    /\ pc[t] = "insert"
    /\ stayed' = [stayed EXCEPT ![t] = Range(active_connections)]
    /\ quiet' = [quiet EXCEPT ![t] = TRUE]
    /\ message' = [message EXCEPT ![t] = broadcast_data(gps_data[t])]
    /\ Iterate(t, active_connections, 0, [error |-> "insert_one"])
    /\ UNCHANGED <<connVars, classifyVars, fixedVars, store, ingests, handler,
                   gps_data, inserted_id, got>>

\* insert_one raises: the exception leaves the handler, nothing after the
\* await runs
insert_one_raises(t) ==
    /\ pc[t] = "insert"
    /\ pc' = [pc EXCEPT ![t] = "done"]
    /\ result' = [result EXCEPT ![t] = [error |-> "insert_one"]]
    /\ UNCHANGED <<connVars, ghostVars, classifyVars, fixedVars, store,
                   ingests, handler, gps_data, inserted_id, message, idx, cur,
                   tried, got>>

\* send_text returned normally: next round of the for statement
send_text_ok(t) ==
    /\ got' = [got EXCEPT ![t][cur[t]] = @ + 1]
    /\ UNCHANGED <<active_connections, stayed, quiet>>
    /\ Iterate(t, active_connections, idx[t], Response(t, inserted_id[t]))

\* variant: the except clause drops the connection and re-raises
send_text_raised_reraise(t) ==
    LET conns == disconnect(active_connections, cur[t])
    IN  /\ active_connections' = conns
        /\ Observe(t, conns)
        /\ got' = got
        /\ pc' = [pc EXCEPT ![t] = "done"]
        /\ cur' = [cur EXCEPT ![t] = 0]
        /\ result' = [result EXCEPT ![t] = [error |-> "send_text"]]
        /\ UNCHANGED <<idx, tried>>

\* send_text raised: the bare except clause calls self.disconnect, then the
\* for statement goes on with the same iterator over the changed list
send_text_raised(t) ==
    LET conns == disconnect(active_connections, cur[t])
    IN  /\ active_connections' = conns
        /\ Observe(t, conns)
        /\ got' = got
        /\ Iterate(t, conns, idx[t], Response(t, inserted_id[t]))

\* the await of connection.send_text completes
send_text_returns(t) ==
    /\ pc[t] = "sending"
    /\ IF cur[t] \in failing THEN send_text_raised(t) ELSE send_text_ok(t)
    /\ UNCHANGED <<ws_state, classifyVars, fixedVars, store, ingests, handler,
                   gps_data, inserted_id, message>>

\* the response (or the error) goes back to the caller, the request is over
respond(t) ==
    /\ pc[t] = "done"
    /\ pc' = [pc EXCEPT ![t] = "idle"]
    /\ handler' = [handler EXCEPT ![t] = ""]
    /\ gps_data' = [gps_data EXCEPT ![t] = NoData]
    /\ inserted_id' = [inserted_id EXCEPT ![t] = 0]
    /\ message' = [message EXCEPT ![t] = NoData]
    /\ idx' = [idx EXCEPT ![t] = 0]
    /\ cur' = [cur EXCEPT ![t] = 0]
    /\ result' = [result EXCEPT ![t] = Pending]
    /\ tried' = [tried EXCEPT ![t] = {}]
    /\ got' = [got EXCEPT ![t] = NoGot]
    /\ stayed' = [stayed EXCEPT ![t] = {}]
    /\ quiet' = [quiet EXCEPT ![t] = TRUE]
    /\ UNCHANGED <<connVars, classifyVars, fixedVars, store, ingests>>

\* ---- websocket_endpoint ----

\* an observer connects: manager.connect(websocket), then the receive loop
websocket_connect(websocket) ==
    /\ ws_state[websocket] = "new"
    /\ active_connections' = connect(active_connections, websocket)
    /\ ws_state' = [ws_state EXCEPT ![websocket] = "open"]
    /\ Observe(0, connect(active_connections, websocket))
    /\ UNCHANGED <<taskVars, classifyVars, fixedVars, store, ingests>>

\* receive_text raises WebSocketDisconnect: manager.disconnect(websocket)
websocket_disconnect(websocket) ==
    /\ ws_state[websocket] = "open"
    /\ active_connections' = disconnect(active_connections, websocket)
    /\ ws_state' = [ws_state EXCEPT ![websocket] = "closed"]
    /\ Observe(0, disconnect(active_connections, websocket))
    /\ UNCHANGED <<taskVars, classifyVars, fixedVars, store, ingests>>

\* ---- the ConnectionManager called directly ----

\* await manager.connect(websocket) on any websocket
manager_connect(websocket) ==
    /\ Len(active_connections) < MaxList
    /\ active_connections' = connect(active_connections, websocket)
    /\ Observe(0, connect(active_connections, websocket))
    /\ UNCHANGED <<ws_state, taskVars, classifyVars, fixedVars, store, ingests>>

\* manager.disconnect(websocket) on any websocket
manager_disconnect(websocket) ==
    /\ active_connections' = disconnect(active_connections, websocket)
    /\ Observe(0, disconnect(active_connections, websocket))
    /\ UNCHANGED <<ws_state, taskVars, classifyVars, fixedVars, store, ingests>>

\* ---- determine_status called directly ----

call_determine_status ==
    /\ status_ret = ""
    /\ status_ret' = determine_status(speed_arg)
    /\ UNCHANGED <<connVars, taskVars, ghostVars, fixedVars, store, ingests,
                   speed_arg>>

\* ---- specifications ----

InitRequests ==
    /\ store = <<>>
    /\ travel_sessions = {}
    /\ ingests = 0
    /\ pc = [t \in Tasks |-> "idle"]
    /\ handler = [t \in Tasks |-> ""]
    /\ gps_data = [t \in Tasks |-> NoData]
    /\ inserted_id = [t \in Tasks |-> 0]
    /\ message = [t \in Tasks |-> NoData]
    /\ idx = [t \in Tasks |-> 0]
    /\ cur = [t \in Tasks |-> 0]
    /\ result = [t \in Tasks |-> Pending]
    /\ tried = [t \in Tasks |-> {}]
    /\ got = [t \in Tasks |-> NoGot]
    /\ stayed = [t \in Tasks |-> {}]
    /\ quiet = [t \in Tasks |-> TRUE]

InitConnections ==
    /\ active_connections = <<>>
    /\ ws_state = [c \in Conns |-> "new"]
    /\ failing \in SUBSET Conns

\* The service: requests and observers arrive in any order.
Init ==
    /\ SPEED_LIMIT = DefaultSpeedLimit
    /\ InitConnections
    /\ InitRequests
    /\ speed_arg = 0
    /\ status_ret = ""

\* A handler returns right after broadcast returns, with no await in
\* between: no other coroutine runs before the request is over.
Returning == \E t \in Tasks : pc[t] = "done"

Ingest ==
    \E t \in Tasks :
        \/ \E gps_input \in GPSInputs : save_gps_data(t, gps_input)
        \/ \E speed \in SimSpeeds : simulate_gps_data(t, speed)
        \/ insert_one_returns(t)
        \/ insert_one_raises(t)
        \/ send_text_returns(t)

Next ==
    \/ \E t \in Tasks : respond(t)
    \/ ~Returning /\ Ingest
    \/ ~Returning /\ \E websocket \in Conns : websocket_connect(websocket)
    \/ ~Returning /\ \E websocket \in Conns : websocket_disconnect(websocket)

Spec == Init /\ [][Next]_vars

\* The observers: requests that all carry one body, with websockets that
\* connect, fail and disconnect in any order.
NextObservers ==
    \/ \E t \in Tasks : respond(t)
    \/ ~Returning /\ \E t \in Tasks : save_gps_data(t, OverspeedInput)
    \/ ~Returning /\ \E t \in Tasks : insert_one_returns(t)
    \/ ~Returning /\ \E t \in Tasks : insert_one_raises(t)
    \/ ~Returning /\ \E t \in Tasks : send_text_returns(t)
    \/ ~Returning /\ \E websocket \in Conns : websocket_connect(websocket)
    \/ ~Returning /\ \E websocket \in Conns : websocket_disconnect(websocket)

SpecObservers == Init /\ [][NextObservers]_vars

\* The two ingest handlers side by side, with websockets that connect, fail
\* and stay until a broadcast drops them.
NextIngest ==
    \/ \E t \in Tasks : respond(t)
    \/ ~Returning /\ \E t \in Tasks : save_gps_data(t, OverspeedInput)
    \/ ~Returning /\ \E t \in Tasks : \E speed \in SimSpeeds :
                         simulate_gps_data(t, speed)
    \/ ~Returning /\ \E t \in Tasks : insert_one_returns(t)
    \/ ~Returning /\ \E t \in Tasks : insert_one_raises(t)
    \/ ~Returning /\ \E t \in Tasks : send_text_returns(t)
    \/ ~Returning /\ \E websocket \in Conns : websocket_connect(websocket)

SpecIngest == Init /\ [][NextIngest]_vars

\* The ConnectionManager as a unit: connect, disconnect and broadcast called
\* in any order on any websocket; the broadcasts are those of simulate
\* requests.
Publish ==
    \E t \in Tasks :
        \/ \E speed \in SimSpeeds : simulate_gps_data(t, speed)
        \/ insert_one_returns(t)
        \/ send_text_returns(t)

NextHub ==
    \/ \E t \in Tasks : respond(t)
    \/ ~Returning /\ Publish
    \/ ~Returning /\ \E websocket \in Conns : manager_connect(websocket)
    \/ ~Returning /\ \E websocket \in Conns : manager_disconnect(websocket)

SpecHub == Init /\ [][NextHub]_vars

\* determine_status alone, over speeds and limits from 0 up.
InitClassify ==
    /\ SPEED_LIMIT \in 0..MaxLimit
    /\ InitConnections
    /\ failing = {}
    /\ InitRequests
    /\ speed_arg \in 0..MaxSpeed
    /\ status_ret = ""

NextClassify == call_determine_status

SpecClassify == InitClassify /\ [][NextClassify]_vars

\* ---- properties ----

Valid(d) ==
    /\ d.device_id # ""
    /\ d.latitude >= -90 /\ d.latitude <= 90
    /\ d.longitude >= -180 /\ d.longitude <= 180
    /\ d.speed >= 0

\* request t went through the insert and its broadcast has returned
Published(t) == pc[t] = "done" /\ inserted_id[t] # 0

\* request t's insert raised
AppendFailed(t) == pc[t] = "done" /\ inserted_id[t] = 0

\* C1: a broadcast during which nobody else touches the list delivers the
\* event exactly once to every healthy connection registered when it began,
\* wherever the failing connections sit in the list.  (While quiet[t] holds
\* only the broadcast itself removes connections, and only failing ones, so
\* stayed[t] \ failing is the set of healthy connections it began with.)
C1_HealthyConnectionsAllReceive ==
    \A t \in Tasks :
        (Published(t) /\ quiet[t]) =>
            \A c \in stayed[t] \ failing : got[t][c] = 1

\* C2: a report with an empty device_id, a latitude or longitude out of range
\* or a negative speed ends in a ValidationError, is not stored and is not
\* broadcast.
C2_InvalidReportRejected ==
    /\ \A i \in DOMAIN store : Valid(store[i])
    /\ \A t \in Tasks :
        (pc[t] # "idle" /\ ~Valid(gps_data[t])) =>
            /\ tried[t] = {}
            /\ pc[t] = "done" => result[t] = [error |-> "ValidationError"]

C4_Classification ==
    /\ [](status_ret # "" =>
            /\ status_ret \in {"diam", "overspeed", "bergerak"}
            /\ (status_ret = "diam") <=> (speed_arg = 0)
            /\ (status_ret = "overspeed") <=> (speed_arg > SPEED_LIMIT)
            /\ (status_ret = "bergerak") <=>
                   (speed_arg # 0 /\ speed_arg <= SPEED_LIMIT))
    /\ [][SPEED_LIMIT' = SPEED_LIMIT]_vars

C4_Witness ==
    status_ret = "bergerak" /\ speed_arg = SPEED_LIMIT /\ speed_arg > 0

\* C5: whichever connections fail, broadcast returns normally and an ingest
\* whose insert succeeded returns its success response.
C5_DeliveryFailureNotSurfaced ==
    \A t \in Tasks :
        Published(t) =>
            /\ "message" \in DOMAIN result[t]
            /\ handler[t] = "save" =>
                   result[t] = [message |-> "Data GPS berhasil disimpan",
                                id |-> inserted_id[t],
                                status |-> store[inserted_id[t]].status]
            /\ handler[t] = "simulate" =>
                   result[t].message = "Data simulasi berhasil dibuat"

C5_Witness ==
    \E t \in Tasks :
        /\ Published(t)
        /\ handler[t] = "save"
        /\ failing = Conns
        /\ tried[t] # {}

\* C6: when only websocket handlers connecting or disconnecting interleave
\* with a broadcast (no send fails), every connection that stays registered
\* for the whole broadcast receives its event exactly once.
C6_StayingConnectionsAllReceive ==
    \A t \in Tasks :
        (Published(t) /\ failing = {}) =>
            \A c \in stayed[t] : got[t][c] = 1

RECURSIVE SumDistance(_)
SumDistance(rs) ==
    IF Len(rs) < 2 THEN 0
    ELSE calculate_distance(rs[1].latitude, rs[1].longitude,
                            rs[2].latitude, rs[2].longitude)
         + SumDistance(Tail(rs))

RECURSIVE MaxOfSpeeds(_)
MaxOfSpeeds(rs) ==
    IF rs = <<>> THEN 0
    ELSE LET m == MaxOfSpeeds(Tail(rs))
         IN  IF rs[1].speed > m THEN rs[1].speed ELSE m

ReportsOf(d) == SelectSeq(store, LAMBDA r : r.device_id = d)

\* C7: after N stored reports of one device (here: all valid and on one
\* meridian) the device has an open TravelSession whose total_distance is the
\* sum of the distances between consecutive positions, whose max_speed is
\* the largest speed and whose overspeed_count counts the reports over the
\* limit.
C7_SessionAggregates ==
    \A d \in {"D1", "SIM001"} :
        LET rs == ReportsOf(d)
        IN  (rs # <<>> /\ \A i \in DOMAIN rs : Valid(rs[i])
                               /\ rs[i].longitude = rs[1].longitude) =>
                \E s \in travel_sessions :
                    /\ s.device_id = d
                    /\ s.total_distance = SumDistance(rs)
                    /\ s.max_speed = MaxOfSpeeds(rs)
                    /\ s.overspeed_count =
                           Cardinality({i \in DOMAIN rs : rs[i].speed > SPEED_LIMIT})

\* a connection that was registered and is no longer in the list
Left(c) == ws_state[c] # "new" /\ c \notin Range(active_connections)

\* broadcast of request t calls send_text on c in this step
Attempts(t, c) == cur'[t] = c /\ idx'[t] # idx[t]

\* C8: a connection whose send failed during a broadcast is out of the list
\* when that broadcast returns; a connection that has left the list stays
\* out, no broadcast calls send_text on it any more, and the disconnect of
\* its websocket handler leaves the list as it is.
C8_UnregisteredIsTerminal ==
    /\ [](\A t \in Tasks :
            pc[t] = "done" =>
                \A c \in tried[t] \cap failing :
                    c \notin Range(active_connections))
    /\ [][\A c \in Conns :
            Left(c) =>
                /\ Left(c)'
                /\ \A t \in Tasks : ~Attempts(t, c)
                /\ (ws_state[c] = "open" /\ ws_state'[c] = "closed") =>
                       active_connections' = active_connections]_vars

C8_Witness ==
    \E t \in Tasks : \E c \in tried[t] \cap failing :
        pc[t] = "done" /\ ws_state[c] = "open" /\ Left(c)

\* C9: whatever connect, disconnect and broadcast calls were made, the list
\* holds each connection at most once and one broadcast delivers an event
\* to a connection at most once.
C9_RegisterIdempotent ==
    /\ \A c \in Conns :
           Cardinality({i \in DOMAIN active_connections :
                            active_connections[i] = c}) <= 1
    /\ \A t \in Tasks : \A c \in Conns : got[t][c] <= 1

\* C10: in both handlers every event handed to send_text belongs to a
\* document already in the collection with the same device_id, speed and
\* status; a report whose insert raised is never broadcast.
C10_BroadcastOnlyAfterAppend ==
    \A t \in Tasks :
        tried[t] # {} =>
            /\ inserted_id[t] \in DOMAIN store
            /\ LET event == message[t]
                   doc == store[inserted_id[t]]
               IN  /\ doc.device_id = event.device_id
                   /\ doc.speed = event.speed
                   /\ doc.status = event.status

C10_Witness ==
    \E t \in Tasks : \E u \in Tasks :
        /\ handler[t] = "save" /\ handler[u] = "simulate"
        /\ pc[t] = "sending" /\ pc[u] = "sending"
        /\ gps_data[t].status = "overspeed"
        /\ \E c \in Conns : got[t][c] > 0 /\ got[u][c] > 0

====
